---- MODULE Spec2Model ----
(***************************************************************************)
(* pymargo.core: the Engine, Address and Provider wrappers around the      *)
(* _pymargo transport binding.  The Python layer (src/pymargo/core.py) is  *)
(* translated statement by statement; the transport primitives it calls    *)
(* (module _pymargo) are not part of src/ and are modelled from the design *)
(* document (sections 3, 4 and 6).                                         *)
(***************************************************************************)
EXTENDS Integers, Sequences, FiniteSets, TLC

\* ------------------------------------------------------------------ bounds
MaxFinalizeCalls == 2
MaxCallbacks == 3
MaxProviderId == 1
MaxRpcs == 2
MaxAddrs == 3
MaxRefs == 3
MaxRegionSize == 2

\* ------------------------------------------------------------- vocabulary
Engines == {"A", "B"}
NoneVal == "None"
RpcNames == {"echo", "sum"}
ProviderIds == 0..MaxProviderId
Targets == {"provider"}
Methods == {"handler"}

VARIABLES
    phase,      \* Engine objects: "new", "ready", "failed" (init raised), "deleted"
    obj,        \* Engine objects: the attributes _finalized and _mid
    thread,     \* per engine: "idle", or "waiting" inside wait_for_finalize
    sess,       \* transport session of each engine: "none", "live", "released"
    finCalls,   \* per engine: number of _pymargo.finalize invocations
    remoteOn,   \* per engine: remote shutdown enabled in the transport
    net,        \* shutdown requests in flight (set of destination engines)
    preCbs,     \* transport's prefinalize callback list, per engine
    finCbs,     \* transport's finalize callback list, per engine
    ran,        \* per engine: what the transport ran at shutdown, in order
    regs,       \* per engine: callbacks handed to on_prefinalize/on_finalize
    rpcs,       \* per engine: the transport's RPC table
    known,      \* per engine: registrations the callers made and kept
    addrs,      \* Address objects
    refs,       \* transport endpoint references
    handle,     \* the inbound Handle being dispatched, if any
    bulks,      \* per engine: the memory region it exposes, once created
    last        \* the last API call: what was asked, what came back

vars == <<phase, obj, thread, sess, finCalls, remoteOn, net, preCbs, finCbs, ran,
          regs, rpcs, known, addrs, refs, handle, bulks, last>>

cbVars == <<preCbs, finCbs, ran, regs>>
rpcVars == <<rpcs, known>>
addrVars == <<addrs, refs, handle>>

\* A Python call on engine e is possible once the constructor has returned
\* and while the calling thread is not blocked inside wait_for_finalize.
Callable(e) == phase[e] = "ready" /\ thread[e] = "idle"

\* What the transport can do with a call on a session that is not live: the
\* session memory is gone, so the call either reports an error or appears to
\* work on garbage.
StaleOutcomes == {"ok", "MargoException"}

Flip(t) == 1 - t

\* Arguments of a call: the strings and the integers it was given.
Args(strs, ints) == [s |-> strs, n |-> ints]
NoArgs == Args(<<>>, <<>>)

\* The integer standing for a None result of an id-valued call.
NoRpcId == 0

\* The record kept of one API call: the operation, the transport primitive
\* it invoked ("none" when it invoked none), how it ended, what it returned
\* (an integer, or a truth value for the boolean queries), and the engine's
\* flag and session as the call found them.
CallRecord(op, e, prim, outcome, result, truth, args) ==
    [tick |-> Flip(last.tick), op |-> op, eng |-> e, call |-> prim,
     outcome |-> outcome, result |-> result, truth |-> truth,
     flag |-> obj[e]._finalized, sess |-> sess[e], args |-> args]

Call(op, e, prim, outcome, result, args) ==
    CallRecord(op, e, prim, outcome, result, FALSE, args)

\* A forwarded call that finds the session gone: the primitive is invoked,
\* nothing the model tracks changes.
Stale(op, e, prim, args) ==
    /\ sess[e] # "live"
    /\ \E out \in StaleOutcomes : last' = Call(op, e, prim, out, NoRpcId, args)

\* An Address slot not yet used, an endpoint reference not yet handed out,
\* and no inbound Handle.
NoAddress ==
    [state |-> "none", _mid |-> NoneVal, _hg_addr |-> 0, _need_del |-> FALSE,
     src |-> NoneVal, copyOf |-> 0]
NoRef == [state |-> "none", endpoint |-> NoneVal, owner |-> NoneVal, frees |-> 0]
NoHandle == [state |-> "none", mid |-> NoneVal, hg_addr |-> 0]
NoBulk == [state |-> "none", size |-> 0, mode |-> NoneVal]

Init ==
    /\ phase = [e \in Engines |-> "new"]
    /\ obj = [e \in Engines |-> [_finalized |-> TRUE, _mid |-> NoneVal]]
    /\ thread = [e \in Engines |-> "idle"]
    /\ sess = [e \in Engines |-> "none"]
    /\ finCalls = [e \in Engines |-> 0]
    /\ remoteOn = [e \in Engines |-> FALSE]
    /\ net = {}
    /\ preCbs = [e \in Engines |-> <<>>]
    /\ finCbs = [e \in Engines |-> <<>>]
    /\ ran = [e \in Engines |-> <<>>]
    /\ regs = [e \in Engines |-> <<>>]
    /\ rpcs = [e \in Engines |-> {}]
    /\ known = [e \in Engines |-> {}]
    /\ addrs = [a \in 1..MaxAddrs |-> NoAddress]
    /\ refs = [r \in 1..MaxRefs |-> NoRef]
    /\ handle = NoHandle
    /\ bulks = [e \in Engines |-> NoBulk]
    /\ last = [tick |-> 0, op |-> "none", eng |-> NoneVal, call |-> "none",
               outcome |-> "ok", result |-> NoRpcId, truth |-> FALSE, flag |-> TRUE,
               sess |-> "none", args |-> NoArgs]

\* ------------------------------------------------ transport: session life
\* _pymargo.init: creates the session, or raises.
TransportInit(e, ok) ==
    sess' = [sess EXCEPT ![e] = IF ok THEN "live" ELSE "none"]

\* What shutdown of a live session does: prefinalize callbacks in order, the
\* progress loop is halted, finalize callbacks in order, the session is
\* released.
ShutdownLog(e) ==
    [i \in 1..Len(preCbs[e]) |-> [phase |-> "pre", cb |-> preCbs[e][i]]]
    \o <<[phase |-> "halt", cb |-> 0]>>
    \o [i \in 1..Len(finCbs[e]) |-> [phase |-> "fin", cb |-> finCbs[e][i]]]
    \o <<[phase |-> "release", cb |-> 0]>>

TransportShutdown(e) ==
    /\ ran' = [ran EXCEPT ![e] = @ \o ShutdownLog(e)]
    /\ preCbs' = [preCbs EXCEPT ![e] = <<>>]
    /\ finCbs' = [finCbs EXCEPT ![e] = <<>>]
    /\ sess' = [sess EXCEPT ![e] = "released"]

\* ------------------------------------------------------- Engine lifecycle
\* Engine.__init__: the flag is set before the transport is asked for a
\* session and cleared only once it has answered.
EngineInit(e, ok) ==
    /\ phase[e] = "new"
    /\ TransportInit(e, ok)
    /\ phase' = [phase EXCEPT ![e] = IF ok THEN "ready" ELSE "failed"]
    /\ obj' = [obj EXCEPT ![e] =
                 IF ok THEN [_finalized |-> FALSE, _mid |-> e]
                 ELSE [_finalized |-> TRUE, _mid |-> NoneVal]]
    /\ last' = Call("__init__", e, "init", IF ok THEN "ok" ELSE "MargoException",
                    NoRpcId, NoArgs)
    /\ UNCHANGED <<thread, finCalls, remoteOn, net, cbVars, rpcVars, addrVars, bulks>>

\* The body of Engine.finalize, run on behalf of operation op: the transport
\* is asked to finalize whatever _mid names; the flag is set when it returns.
FinalizeBody(op, e) ==
    /\ finCalls[e] < MaxFinalizeCalls
    /\ finCalls' = [finCalls EXCEPT ![e] = @ + 1]
    /\ \/ /\ sess[e] = "live"
          /\ TransportShutdown(e)
          /\ obj' = [obj EXCEPT ![e]._finalized = TRUE]
          /\ last' = Call(op, e, "finalize", "ok", NoRpcId, NoArgs)
       \/ /\ sess[e] # "live"
          /\ \E out \in StaleOutcomes :
               /\ obj' = [obj EXCEPT ![e]._finalized =
                            IF out = "ok" THEN TRUE ELSE @]
               /\ last' = Call(op, e, "finalize", out, NoRpcId, NoArgs)
          /\ UNCHANGED <<sess, preCbs, finCbs, ran>>

\* Engine.finalize; another thread may call it while this engine's own
\* thread is blocked in wait_for_finalize.
EngineFinalize(e) ==
    /\ phase[e] = "ready"
    /\ FinalizeBody("finalize", e)
    /\ UNCHANGED <<phase, thread, remoteOn, net, regs, rpcVars, addrVars, bulks>>

\* Mutant: the implicit paths finalize without looking at the flag.
FinalizeAlways(op, e) == FinalizeBody(op, e)

\* The guarded shutdown shared by __exit__ and __del__.
FinalizeUnlessFinalized(op, e) ==
    IF ~obj[e]._finalized
    THEN FinalizeBody(op, e)
    ELSE /\ last' = Call(op, e, "none", "ok", NoRpcId, NoArgs)
         /\ UNCHANGED <<obj, sess, finCalls, preCbs, finCbs, ran>>

\* Engine.__exit__
EngineExit(e) ==
    /\ Callable(e)
    /\ FinalizeUnlessFinalized("__exit__", e)
    /\ UNCHANGED <<phase, thread, remoteOn, net, regs, rpcVars, addrVars, bulks>>

\* Engine.__del__: runs once, also for an object whose constructor raised.
EngineDel(e) ==
    /\ phase[e] \in {"ready", "failed"}
    /\ thread[e] = "idle"
    /\ FinalizeUnlessFinalized("__del__", e)
    /\ phase' = [phase EXCEPT ![e] = "deleted"]
    /\ UNCHANGED <<thread, remoteOn, net, regs, rpcVars, addrVars, bulks>>

\* Engine.wait_for_finalize, the call: the thread blocks in the transport
\* until the session is finalized by another actor.
EngineWaitForFinalize(e) ==
    /\ Callable(e)
    /\ \/ /\ sess[e] = "live"
          /\ thread' = [thread EXCEPT ![e] = "waiting"]
          /\ UNCHANGED <<obj, last>>
       \/ /\ sess[e] # "live"
          /\ \E out \in StaleOutcomes :
               /\ obj' = [obj EXCEPT ![e]._finalized =
                            IF out = "ok" THEN TRUE ELSE @]
               /\ last' = Call("wait_for_finalize", e, "wait_for_finalize", out,
                               NoRpcId, NoArgs)
          /\ UNCHANGED thread
    /\ UNCHANGED <<phase, sess, finCalls, remoteOn, net, cbVars, rpcVars, addrVars, bulks>>

\* Mutant: wait_for_finalize returns without recording the finalization.
WaitReturnKeepsFlag(e) ==
    /\ thread[e] = "waiting"
    /\ sess[e] = "released"
    /\ thread' = [thread EXCEPT ![e] = "idle"]
    /\ last' = Call("wait_for_finalize", e, "wait_for_finalize", "ok", NoRpcId, NoArgs)
    /\ UNCHANGED <<phase, obj, sess, finCalls, remoteOn, net, cbVars, rpcVars, addrVars,
                   bulks>>

\* Engine.wait_for_finalize, the return: the transport call comes back once
\* the session has been released; the flag is set.
WaitForFinalizeReturn(e) ==
    /\ thread[e] = "waiting"
    /\ sess[e] = "released"
    /\ thread' = [thread EXCEPT ![e] = "idle"]
    /\ obj' = [obj EXCEPT ![e]._finalized = TRUE]
    /\ last' = Call("wait_for_finalize", e, "wait_for_finalize", "ok", NoRpcId, NoArgs)
    /\ UNCHANGED <<phase, sess, finCalls, remoteOn, net, cbVars, rpcVars, addrVars, bulks>>

\* ------------------------------------------------------ shutdown callbacks
\* The next callable a caller hands over: each registration gets its own.
NextCb(e) == Len(regs[e]) + 1

\* _pymargo.push_prefinalize_callback / push_finalize_callback
PushPrefinalize(e, cb) == preCbs' = [preCbs EXCEPT ![e] = Append(@, cb)]
PushFinalize(e, cb) == finCbs' = [finCbs EXCEPT ![e] = Append(@, cb)]

\* Engine.on_prefinalize
EngineOnPrefinalize(e) ==
    /\ Callable(e)
    /\ Len(regs[e]) < MaxCallbacks
    /\ \/ /\ sess[e] = "live"
          /\ PushPrefinalize(e, NextCb(e))
          /\ last' = Call("on_prefinalize", e, "push_prefinalize_callback", "ok",
                          NoRpcId, Args(<<>>, <<NextCb(e)>>))
          /\ regs' = [regs EXCEPT ![e] = Append(@, [api |-> "on_prefinalize", cb |-> NextCb(e)])]
       \/ /\ Stale("on_prefinalize", e, "push_prefinalize_callback", Args(<<>>, <<NextCb(e)>>))
          /\ UNCHANGED <<preCbs, regs>>
    /\ UNCHANGED <<phase, obj, thread, sess, finCalls, remoteOn, net, finCbs, ran,
                   rpcVars, addrVars, bulks>>

\* Engine.on_finalize
EngineOnFinalize(e) ==
    /\ Callable(e)
    /\ Len(regs[e]) < MaxCallbacks
    /\ \/ /\ sess[e] = "live"
          /\ PushFinalize(e, NextCb(e))
          /\ last' = Call("on_finalize", e, "push_finalize_callback", "ok",
                          NoRpcId, Args(<<>>, <<NextCb(e)>>))
          /\ regs' = [regs EXCEPT ![e] = Append(@, [api |-> "on_finalize", cb |-> NextCb(e)])]
       \/ /\ Stale("on_finalize", e, "push_finalize_callback", Args(<<>>, <<NextCb(e)>>))
          /\ UNCHANGED <<finCbs, regs>>
    /\ UNCHANGED <<phase, obj, thread, sess, finCalls, remoteOn, net, preCbs, ran,
                   rpcVars, addrVars, bulks>>

\* Engine.listening
EngineListening(e) ==
    /\ Callable(e)
    /\ \/ /\ sess[e] = "live"
          /\ last' = CallRecord("listening", e, "is_listening", "ok", NoRpcId, TRUE, NoArgs)
       \/ Stale("listening", e, "is_listening", NoArgs)
    /\ UNCHANGED <<phase, obj, thread, sess, finCalls, remoteOn, net, cbVars,
                   rpcVars, addrVars, bulks>>

\* Engine.enable_remote_shutdown
EngineEnableRemoteShutdown(e) ==
    /\ Callable(e)
    /\ \/ /\ sess[e] = "live"
          /\ remoteOn' = [remoteOn EXCEPT ![e] = TRUE]
          /\ last' = Call("enable_remote_shutdown", e, "enable_remote_shutdown", "ok",
                          NoRpcId, NoArgs)
       \/ /\ Stale("enable_remote_shutdown", e, "enable_remote_shutdown", NoArgs)
          /\ UNCHANGED remoteOn
    /\ UNCHANGED <<phase, obj, thread, sess, finCalls, net, cbVars, rpcVars, addrVars, bulks>>

\* ------------------------------------------------------------ lifecycle
LifeEngines == {"A"}

NextLife ==
    \E e \in LifeEngines :
        \/ \E ok \in BOOLEAN : EngineInit(e, ok)
        \/ EngineFinalize(e)
        \/ EngineExit(e)
        \/ EngineDel(e)
        \/ EngineWaitForFinalize(e)
        \/ WaitForFinalizeReturn(e)
        \/ EngineOnPrefinalize(e)
        \/ EngineOnFinalize(e)
        \/ EngineListening(e)
        \/ EngineEnableRemoteShutdown(e)

SpecLife == Init /\ [][NextLife]_vars

\* ------------------------------------------------------ RPC registration
\* The transport's RPC identifier: a function of the name and the provider
\* id alone, different for different (name, provider id) pairs.
NameKey(name) == IF name = "echo" THEN 1 ELSE 2
RpcId(name, pid) == NameKey(name) * (MaxProviderId + 1) + pid

\* _pymargo.register / _pymargo.register_on_client: the entry for
\* (name, pid) is created or replaced; handler is <<target, method>> on the
\* server side and <<>> on the client side.
TransportRegister(e, name, pid, handler) ==
    rpcs' = [rpcs EXCEPT ![e] =
               {r \in @ : r.id # RpcId(name, pid)}
               \cup {[id |-> RpcId(name, pid), name |-> name, pid |-> pid,
                      handler |-> handler]}]

\* _pymargo.registered_provider: the id under (name, pid), if registered.
TransportRegisteredProvider(e, name, pid) ==
    IF \E r \in rpcs[e] : r.id = RpcId(name, pid) THEN RpcId(name, pid) ELSE NoRpcId

\* _pymargo.registered: the lookup in the default namespace, provider id 0.
TransportRegisteredName(e, name) == TransportRegisteredProvider(e, name, 0)

\* _pymargo.deregister
TransportDeregister(e, id) ==
    rpcs' = [rpcs EXCEPT ![e] = {r \in @ : r.id # id}]

\* Room in the table for (name, pid).
RoomFor(e, name, pid) ==
    \/ Cardinality(rpcs[e]) < MaxRpcs
    \/ \E r \in rpcs[e] : r.id = RpcId(name, pid)

\* What the caller now knows to be registered: (name, pid) under the id the
\* call returned.
Remember(e, name, pid, id) ==
    known' = [known EXCEPT ![e] =
                {k \in @ : ~(k.name = name /\ k.pid = pid)}
                \cup {[name |-> name, pid |-> pid, id |-> id]}]

\* Mutant: a lone obj or a lone method_name is taken for a client-side
\* registration instead of being refused.
RegisterBodyLoose(op, e, rpc_name, o, method_name, provider_id) ==
    LET args == Args(<<rpc_name, o, method_name>>, <<provider_id>>) IN
    IF (o = NoneVal) \/ (method_name = NoneVal)
    THEN \/ /\ sess[e] = "live"
            /\ RoomFor(e, rpc_name, provider_id)
            /\ TransportRegister(e, rpc_name, provider_id, <<>>)
            /\ last' = Call(op, e, "register_on_client", "ok",
                            RpcId(rpc_name, provider_id), args)
            /\ Remember(e, rpc_name, provider_id, RpcId(rpc_name, provider_id))
         \/ /\ Stale(op, e, "register_on_client", args)
            /\ UNCHANGED <<rpcs, known>>
    ELSE \/ /\ sess[e] = "live"
            /\ RoomFor(e, rpc_name, provider_id)
            /\ TransportRegister(e, rpc_name, provider_id, <<o, method_name>>)
            /\ last' = Call(op, e, "register", "ok",
                            RpcId(rpc_name, provider_id), args)
            /\ Remember(e, rpc_name, provider_id, RpcId(rpc_name, provider_id))
         \/ /\ Stale(op, e, "register", args)
            /\ UNCHANGED <<rpcs, known>>

\* The body of Engine.register, run on behalf of operation op.
RegisterBody(op, e, rpc_name, o, method_name, provider_id) ==
    LET args == Args(<<rpc_name, o, method_name>>, <<provider_id>>) IN
    IF (o = NoneVal) /\ (method_name = NoneVal)
    THEN \/ /\ sess[e] = "live"
            /\ RoomFor(e, rpc_name, provider_id)
            /\ TransportRegister(e, rpc_name, provider_id, <<>>)
            /\ last' = Call(op, e, "register_on_client", "ok",
                            RpcId(rpc_name, provider_id), args)
            /\ Remember(e, rpc_name, provider_id, RpcId(rpc_name, provider_id))
         \/ /\ Stale(op, e, "register_on_client", args)
            /\ UNCHANGED <<rpcs, known>>
    ELSE IF (o # NoneVal) /\ (method_name # NoneVal)
    THEN \/ /\ sess[e] = "live"
            /\ RoomFor(e, rpc_name, provider_id)
            /\ TransportRegister(e, rpc_name, provider_id, <<o, method_name>>)
            /\ last' = Call(op, e, "register", "ok",
                            RpcId(rpc_name, provider_id), args)
            /\ Remember(e, rpc_name, provider_id, RpcId(rpc_name, provider_id))
         \/ /\ Stale(op, e, "register", args)
            /\ UNCHANGED <<rpcs, known>>
    ELSE /\ last' = Call(op, e, "none", "RuntimeError", NoRpcId, args)
         /\ UNCHANGED <<rpcs, known>>

\* Engine.register
EngineRegister(e, rpc_name, o, method_name, provider_id) ==
    /\ Callable(e)
    /\ RegisterBody("register", e, rpc_name, o, method_name, provider_id)
    /\ UNCHANGED <<phase, obj, thread, sess, finCalls, remoteOn, net, cbVars, addrVars, bulks>>

\* Mutant: the provider id is not passed on to the transport.
RegisteredIgnoringProvider(e, rpc_name, given, provider_id) ==
    TransportRegisteredName(e, rpc_name)

\* What Engine.registered returns; given is whether provider_id is not None.
RegisteredValue(e, rpc_name, given, provider_id) ==
    IF ~given
    THEN TransportRegisteredName(e, rpc_name)
    ELSE TransportRegisteredProvider(e, rpc_name, provider_id)

\* The body of Engine.registered, run on behalf of operation op.
RegisteredBody(op, e, rpc_name, given, provider_id) ==
    LET args == Args(<<rpc_name, IF given THEN "given" ELSE NoneVal>>, <<provider_id>>)
        prim == IF given THEN "registered_provider" ELSE "registered"
    IN  \/ /\ sess[e] = "live"
           /\ last' = Call(op, e, prim, "ok",
                           RegisteredValue(e, rpc_name, given, provider_id), args)
        \/ Stale(op, e, prim, args)

\* Engine.registered
EngineRegistered(e, rpc_name, given, provider_id) ==
    /\ Callable(e)
    /\ RegisteredBody("registered", e, rpc_name, given, provider_id)
    /\ UNCHANGED <<phase, obj, thread, sess, finCalls, remoteOn, net, cbVars, rpcVars,
                   addrVars, bulks>>

\* Engine.deregister
EngineDeregister(e, rpc_id) ==
    /\ Callable(e)
    /\ \/ /\ sess[e] = "live"
          /\ TransportDeregister(e, rpc_id)
          /\ known' = [known EXCEPT ![e] = {k \in @ : k.id # rpc_id}]
          /\ last' = Call("deregister", e, "deregister", "ok", NoRpcId,
                          Args(<<>>, <<rpc_id>>))
       \/ /\ Stale("deregister", e, "deregister", Args(<<>>, <<rpc_id>>))
          /\ UNCHANGED <<rpcs, known>>
    /\ UNCHANGED <<phase, obj, thread, sess, finCalls, remoteOn, net, cbVars, addrVars, bulks>>

\* Provider.__init__: the pair (engine, provider id).
Provider(e, provider_id) == [_engine |-> e, _provider_id |-> provider_id]

\* The object a Provider passes as obj when it registers a method of its own.
Self(p) == "provider"

\* Provider.register
ProviderRegister(p, rpc_name, method_name) ==
    /\ Callable(p._engine)
    /\ RegisterBody("Provider.register", p._engine, rpc_name, Self(p), method_name,
                    p._provider_id)
    /\ UNCHANGED <<phase, obj, thread, sess, finCalls, remoteOn, net, cbVars, addrVars, bulks>>

\* Provider.registered
ProviderRegistered(p, rpc_name) ==
    /\ Callable(p._engine)
    /\ RegisteredBody("Provider.registered", p._engine, rpc_name, TRUE, p._provider_id)
    /\ UNCHANGED <<phase, obj, thread, sess, finCalls, remoteOn, net, cbVars, rpcVars,
                   addrVars, bulks>>

RpcEngines == {"A"}
RpcIds == {RpcId(n, q) : n \in RpcNames, q \in ProviderIds}

NextRpc ==
    \E e \in RpcEngines :
        \/ EngineInit(e, TRUE)
        \/ \E n \in RpcNames, o \in Targets \cup {NoneVal},
              m \in Methods \cup {NoneVal}, q \in ProviderIds :
                EngineRegister(e, n, o, m, q)
        \/ \E n \in RpcNames, g \in BOOLEAN, q \in ProviderIds :
                EngineRegistered(e, n, g, q)
        \/ \E id \in RpcIds : EngineDeregister(e, id)
        \/ \E n \in RpcNames, m \in Methods \cup {NoneVal}, q \in ProviderIds :
                ProviderRegister(Provider(e, q), n, m)
        \/ \E n \in RpcNames, q \in ProviderIds :
                ProviderRegistered(Provider(e, q), n)

SpecRpc == Init /\ [][NextRpc]_vars

\* ---------------------------------------------------------------- Address
AddrStrings == {"tcp://A", "tcp://B"}

\* The endpoint a textual address names.
Resolve(straddr) == IF straddr = "tcp://A" THEN "A" ELSE "B"

FreeRefs == {r \in 1..MaxRefs : refs[r].state = "none"}
FreeAddrs == {a \in 1..MaxAddrs : addrs[a].state = "none"}
Lowest(S) == CHOOSE x \in S : \A y \in S : x <= y

\* A reference the transport hands out: _pymargo.lookup, addr_self, addr_dup
\* and the sender reference of an inbound Handle each make a new one.
NewRef(ep, owner) == [state |-> "live", endpoint |-> ep, owner |-> owner, frees |-> 0]

\* _pymargo.addr_dup: reference n becomes a new reference to r's endpoint.
RefsAfterDup(rs, r, n) == [rs EXCEPT ![n] = NewRef(rs[r].endpoint, "wrapper")]

\* _pymargo.addr_free: the reference is released.
RefsAfterFree(rs, r) ==
    [rs EXCEPT ![r] = [@ EXCEPT !.state = "freed", !.frees = @ + 1]]

\* _pymargo.addr_cmp: whether two references name the same endpoint; on a
\* reference that is no longer live the answer is anything.
AddrCmpResults(rs, r1, r2) ==
    IF rs[r1].state = "live" /\ rs[r2].state = "live"
    THEN {rs[r1].endpoint = rs[r2].endpoint}
    ELSE BOOLEAN

\* Address.__init__
NewAddress(mid, hg_addr, need_del, src, copyOf) ==
    [state |-> "alive", _mid |-> mid, _hg_addr |-> hg_addr, _need_del |-> need_del,
     src |-> src, copyOf |-> copyOf]

\* Mutant: the destructor frees whatever it wraps.
RefsAfterDelAlways(rs, adr) == RefsAfterFree(rs, adr._hg_addr)

\* Address.__del__: what destroying the wrapper adr does to the references.
RefsAfterDel(rs, adr) ==
    IF adr._need_del THEN RefsAfterFree(rs, adr._hg_addr) ELSE rs

\* Mutant: the copy wraps the very reference of the original.
CopyShared(rs, adr, from, n) ==
    [refs |-> rs,
     address |-> NewAddress(adr._mid, adr._hg_addr, TRUE, "copy", from)]

\* Address.copy: the copy of adr (the Address in slot from), wrapping a
\* duplicate reference n, and the references afterwards.
Copy(rs, adr, from, n) ==
    [refs |-> RefsAfterDup(rs, adr._hg_addr, n),
     address |-> NewAddress(adr._mid, n, TRUE, "copy", from)]

\* The reference an Address wraps.
RefOf(a) == refs[addrs[a]._hg_addr]

\* Engine.lookup
EngineLookup(e, straddr) ==
    /\ Callable(e)
    /\ \/ /\ sess[e] = "live"
          /\ FreeRefs # {} /\ FreeAddrs # {}
          /\ LET r == Lowest(FreeRefs)
                 a == Lowest(FreeAddrs)
             IN /\ refs' = [refs EXCEPT ![r] = NewRef(Resolve(straddr), "wrapper")]
                /\ addrs' = [addrs EXCEPT ![a] = NewAddress(obj[e]._mid, r, TRUE, "lookup", 0)]
                /\ last' = Call("lookup", e, "lookup", "ok", a, Args(<<straddr>>, <<>>))
       \/ /\ Stale("lookup", e, "lookup", Args(<<straddr>>, <<>>))
          /\ UNCHANGED <<addrs, refs>>
    /\ UNCHANGED <<phase, obj, thread, sess, finCalls, remoteOn, net, cbVars, rpcVars,
                   handle, bulks>>

\* Engine.addr
EngineAddr(e) ==
    /\ Callable(e)
    /\ \/ /\ sess[e] = "live"
          /\ FreeRefs # {} /\ FreeAddrs # {}
          /\ LET r == Lowest(FreeRefs)
                 a == Lowest(FreeAddrs)
             IN /\ refs' = [refs EXCEPT ![r] = NewRef(e, "wrapper")]
                /\ addrs' = [addrs EXCEPT ![a] = NewAddress(obj[e]._mid, r, TRUE, "addr", 0)]
                /\ last' = Call("addr", e, "addr_self", "ok", a, NoArgs)
       \/ /\ Stale("addr", e, "addr_self", NoArgs)
          /\ UNCHANGED <<addrs, refs>>
    /\ UNCHANGED <<phase, obj, thread, sess, finCalls, remoteOn, net, cbVars, rpcVars,
                   handle, bulks>>

\* Address.copy
AddressCopy(a) ==
    /\ addrs[a].state = "alive"
    /\ FreeRefs # {} /\ FreeAddrs # {}
    /\ LET c == Copy(refs, addrs[a], a, Lowest(FreeRefs))
           slot == Lowest(FreeAddrs)
       IN /\ refs' = c.refs
          /\ addrs' = [addrs EXCEPT ![slot] = c.address]
          /\ last' = Call("copy", addrs[a]._mid, "addr_dup", "ok", slot, Args(<<>>, <<a>>))
    /\ UNCHANGED <<phase, obj, thread, sess, finCalls, remoteOn, net, cbVars, rpcVars,
                   handle, bulks>>

\* Address.__del__
AddressDel(a) ==
    /\ addrs[a].state = "alive"
    /\ refs' = RefsAfterDel(refs, addrs[a])
    /\ addrs' = [addrs EXCEPT ![a].state = "dead"]
    /\ last' = Call("Address.__del__", addrs[a]._mid,
                    IF addrs[a]._need_del THEN "addr_free" ELSE "none", "ok", NoRpcId,
                    Args(<<>>, <<a>>))
    /\ UNCHANGED <<phase, obj, thread, sess, finCalls, remoteOn, net, cbVars, rpcVars,
                   handle, bulks>>

\* Address.__eq__: the two wrapped references are compared by the transport.
AddressEqResults(a, b) == AddrCmpResults(refs, addrs[a]._hg_addr, addrs[b]._hg_addr)

AddressEq(a, b) ==
    /\ addrs[a].state = "alive" /\ addrs[b].state = "alive"
    /\ \E t \in AddressEqResults(a, b) :
          last' = CallRecord("__eq__", addrs[a]._mid, "addr_cmp", "ok", NoRpcId, t,
                             Args(<<>>, <<a, b>>))
    /\ UNCHANGED <<phase, obj, thread, sess, finCalls, remoteOn, net, cbVars, rpcVars,
                   addrVars, bulks>>

\* An inbound RPC reaches engine e: the transport builds its Handle, which
\* carries a reference to the sender that the Handle owns.
Dispatch(e, sender) ==
    /\ phase[e] = "ready" /\ sess[e] = "live"
    /\ handle.state = "none"
    /\ FreeRefs # {}
    /\ LET r == Lowest(FreeRefs)
       IN /\ refs' = [refs EXCEPT ![r] = NewRef(sender, "handle")]
          /\ handle' = [state |-> "active", mid |-> obj[e]._mid, hg_addr |-> r]
    /\ UNCHANGED <<phase, obj, thread, sess, finCalls, remoteOn, net, cbVars, rpcVars,
                   addrs, bulks, last>>

\* The handler returns: the transport destroys the Handle and with it the
\* sender reference.
HandleDone ==
    /\ handle.state = "active"
    /\ refs' = [refs EXCEPT ![handle.hg_addr].state = "returned"]
    /\ handle' = NoHandle
    /\ UNCHANGED <<phase, obj, thread, sess, finCalls, remoteOn, net, cbVars, rpcVars,
                   addrs, bulks, last>>

\* Handle.get_addr (__Handler_get_Address): a borrowed wrapper of the sender
\* reference is built, copied, and dropped when the function returns.
HandlerGetAddress ==
    /\ handle.state = "active"
    /\ FreeRefs # {} /\ Cardinality(FreeAddrs) >= 2
    /\ LET t == Lowest(FreeAddrs)
           slot == Lowest(FreeAddrs \ {t})
           tmp == NewAddress(handle.mid, handle.hg_addr, FALSE, "borrowed", 0)
           c == Copy(refs, tmp, t, Lowest(FreeRefs))
       IN /\ refs' = RefsAfterDel(c.refs, tmp)
          /\ addrs' = [addrs EXCEPT ![t] = [tmp EXCEPT !.state = "dead"],
                                    ![slot] = c.address]
          /\ last' = Call("get_addr", handle.mid, "addr_dup", "ok", slot, NoArgs)
    /\ UNCHANGED <<phase, obj, thread, sess, finCalls, remoteOn, net, cbVars, rpcVars,
                   handle, bulks>>

AddrEngines == {"A"}

NextAddr ==
    \/ \E e \in AddrEngines : EngineInit(e, TRUE)
    \/ \E e \in AddrEngines, st \in AddrStrings : EngineLookup(e, st)
    \/ \E e \in AddrEngines : EngineAddr(e)
    \/ \E a \in 1..MaxAddrs : AddressCopy(a)
    \/ \E a \in 1..MaxAddrs : AddressDel(a)
    \/ \E a, b \in 1..MaxAddrs : AddressEq(a, b)
    \/ \E e \in AddrEngines, sender \in Engines : Dispatch(e, sender)
    \/ HandleDone
    \/ HandlerGetAddress

SpecAddr == Init /\ [][NextAddr]_vars

\* -------------------------------------------------------- remote shutdown
\* Address.shutdown: a shutdown request is sent to the endpoint the wrapped
\* reference names.
AddressShutdown(a) ==
    /\ addrs[a].state = "alive"
    /\ Callable(addrs[a]._mid)
    /\ \/ /\ sess[addrs[a]._mid] = "live"
          /\ net' = net \cup {RefOf(a).endpoint}
          /\ last' = Call("shutdown", addrs[a]._mid, "shutdown_remote_instance", "ok",
                          NoRpcId, Args(<<>>, <<a>>))
       \/ /\ Stale("shutdown", addrs[a]._mid, "shutdown_remote_instance",
                   Args(<<>>, <<a>>))
          /\ UNCHANGED net
    /\ UNCHANGED <<phase, obj, thread, sess, finCalls, remoteOn, cbVars, rpcVars,
                   addrVars, bulks>>

\* The transport of engine e receives a shutdown request: it finalizes the
\* session if remote shutdown was enabled and ignores the request otherwise.
DeliverShutdown(e) ==
    /\ e \in net
    /\ net' = net \ {e}
    /\ IF remoteOn[e] /\ sess[e] = "live"
       THEN TransportShutdown(e)
       ELSE UNCHANGED <<sess, preCbs, finCbs, ran>>
    /\ UNCHANGED <<phase, obj, thread, finCalls, remoteOn, regs, rpcVars, addrVars,
                   bulks, last>>

Served == "A"
Requester == "B"

NextShutdown ==
    \/ \E e \in Engines, ok \in BOOLEAN : EngineInit(e, ok)
    \/ EngineEnableRemoteShutdown(Served)
    \/ EngineFinalize(Served)
    \/ EngineExit(Served)
    \/ EngineWaitForFinalize(Served)
    \/ WaitForFinalizeReturn(Served)
    \/ EngineLookup(Requester, "tcp://A")
    \/ \E a \in 1..MaxAddrs : AddressShutdown(a)
    \/ DeliverShutdown(Served)
    \/ EngineDel(Served)

SpecShutdown == Init /\ [][NextShutdown]_vars

\* The transport handles a request it has received, and a call blocked in
\* it returns once its session is released.
FairShutdown ==
    /\ SpecShutdown
    /\ WF_vars(DeliverShutdown(Served))
    /\ WF_vars(WaitForFinalizeReturn(Served))

\* ------------------------------------------------------------ bulk transfer
BulkModes == {"read_only", "write_only", "read_write"}
BulkOps == {"push", "pull"}
RegionSizes == 1..MaxRegionSize
Offsets == 0..MaxRegionSize
TransferSizes == 0..(MaxRegionSize + 1)

\* Whether the direction fits the two access modes: a push reads the local
\* region and writes the origin, a pull reads the origin and writes the local.
ModesAllow(op, originMode, localMode) ==
    IF op = "push"
    THEN localMode # "write_only" /\ originMode # "read_only"
    ELSE originMode # "write_only" /\ localMode # "read_only"

\* _pymargo.bulk_transfer: how the transfer ends.
BulkTransferOutcome(op, origin, origin_offset, local, local_offset, size) ==
    IF origin_offset + size > origin.size \/ local_offset + size > local.size
    THEN "OutOfBoundsError"
    ELSE IF ~ModesAllow(op, origin.mode, local.mode)
    THEN "AccessModeError"
    ELSE "ok"

\* Engine.create_bulk
EngineCreateBulk(e, size, mode) ==
    /\ Callable(e)
    /\ bulks[e].state = "none"
    /\ \/ /\ sess[e] = "live"
          /\ bulks' = [bulks EXCEPT ![e] = [state |-> "created", size |-> size, mode |-> mode]]
          /\ last' = Call("create_bulk", e, "bulk_create", "ok", NoRpcId,
                          Args(<<mode>>, <<size>>))
       \/ /\ Stale("create_bulk", e, "bulk_create", Args(<<mode>>, <<size>>))
          /\ UNCHANGED bulks
    /\ UNCHANGED <<phase, obj, thread, sess, finCalls, remoteOn, net, cbVars, rpcVars,
                   addrVars>>

\* Mutant: the two offsets are passed to the transport in each other's place.
TransferSwapped(e, op, origin_addr, peer, origin_offset, local_offset, size) ==
    /\ Callable(e)
    /\ addrs[origin_addr].state = "alive"
    /\ bulks[peer].state = "created" /\ bulks[e].state = "created"
    /\ LET args == Args(<<op, peer>>, <<origin_addr, origin_offset, local_offset, size>>)
           out == BulkTransferOutcome(op, bulks[peer], local_offset, bulks[e],
                                      origin_offset, size)
       IN \/ /\ sess[e] = "live"
             /\ last' = Call("transfer", e, "bulk_transfer", out,
                             IF out = "ok" THEN size ELSE 0, args)
          \/ Stale("transfer", e, "bulk_transfer", args)
    /\ UNCHANGED <<phase, obj, thread, sess, finCalls, remoteOn, net, cbVars, rpcVars,
                   addrVars, bulks>>

\* Engine.transfer: origin_handle is the region of peer, local_handle the
\* region of e; the call returns the number of bytes moved in result.
EngineTransfer(e, op, origin_addr, peer, origin_offset, local_offset, size) ==
    /\ Callable(e)
    /\ addrs[origin_addr].state = "alive"
    /\ bulks[peer].state = "created" /\ bulks[e].state = "created"
    /\ LET args == Args(<<op, peer>>, <<origin_addr, origin_offset, local_offset, size>>)
           out == BulkTransferOutcome(op, bulks[peer], origin_offset, bulks[e],
                                      local_offset, size)
       IN \/ /\ sess[e] = "live"
             /\ last' = Call("transfer", e, "bulk_transfer", out,
                             IF out = "ok" THEN size ELSE 0, args)
          \/ Stale("transfer", e, "bulk_transfer", args)
    /\ UNCHANGED <<phase, obj, thread, sess, finCalls, remoteOn, net, cbVars, rpcVars,
                   addrVars, bulks>>

Local == "A"
Origin == "B"

\* The local engine resolves the origin's address, once.
LookupOrigin == FreeAddrs = 1..MaxAddrs /\ EngineLookup(Local, "tcp://B")

NextBulk ==
    \/ \E e \in Engines : EngineInit(e, TRUE)
    \/ \E e \in Engines, sz \in RegionSizes, md \in BulkModes : EngineCreateBulk(e, sz, md)
    \/ LookupOrigin
    \/ \E op \in BulkOps, a \in 1..MaxAddrs, oo \in Offsets, lo \in Offsets,
          sz \in TransferSizes :
            EngineTransfer(Local, op, a, Origin, oo, lo, sz)

SpecBulk == Init /\ [][NextBulk]_vars

\* =============================================================== properties
NonDestructiveOps ==
    {"register", "registered", "deregister", "disable_response", "lookup", "addr",
     "create_handle", "create_bulk", "transfer", "on_prefinalize", "on_finalize",
     "enable_remote_shutdown", "set_remove", "listening"}

ImplicitOps == {"__exit__", "__del__"}

\* C1 (as claimed): a non-destructive operation called on an Engine whose
\* finalize() has completed fails with LifecycleError and never reaches the
\* transport.
C1_FinalizedOpsFailWithLifecycleError ==
    (last.op \in NonDestructiveOps /\ last.flag /\ last.sess = "released")
        => (last.outcome = "LifecycleError" /\ last.call = "none")

\* C2 (as claimed): over any sequence of finalize() calls on one Engine the
\* transport's finalize is invoked at most once.
C2_TransportFinalizeAtMostOnce ==
    \A e \in Engines : finCalls[e] <= 1

\* C10: __exit__ and __del__ invoke the transport's finalize only on an
\* Engine whose session was created and whose flag is not set; the flag is
\* set when init raised and once finalize() or wait_for_finalize() has
\* returned, it is never cleared, and while it is set no __exit__ or __del__
\* invokes the transport's finalize.
C10_State ==
    /\ (last.op \in ImplicitOps /\ last.call = "finalize")
           => (~last.flag /\ last.sess # "none")
    /\ (last.op \in ImplicitOps /\ last.flag) => last.call = "none"
    /\ (last.op \in {"finalize", "wait_for_finalize"} /\ last.outcome = "ok")
           => obj[last.eng]._finalized
    /\ (last.op = "__init__" /\ last.outcome # "ok")
           => (obj[last.eng]._finalized /\ sess[last.eng] = "none")

C10_Step ==
    \A e \in Engines :
        (phase[e] # "new" /\ obj[e]._finalized)
            => /\ obj'[e]._finalized
               /\ (last'.op \in ImplicitOps /\ last'.eng = e /\ last'.tick # last.tick)
                      => finCalls'[e] = finCalls[e]

RegisterOps == {"register", "Provider.register"}
RegisteredOps == {"registered", "Provider.registered"}

\* The arguments of a recorded register call.
ArgName(c) == c.args.s[1]
ArgObj(c) == c.args.s[2]
ArgMethod(c) == c.args.s[3]
ArgProvider(c) == c.args.n[1]
ExactlyOneGiven(c) == (ArgObj(c) = NoneVal) # (ArgMethod(c) = NoneVal)

\* C3: register with exactly one of obj and method_name raises, invokes no
\* transport primitive and leaves the RPC table as it was; with neither it
\* registers (name, provider_id) on the client side, without a handler; with
\* both it registers the handler (obj, method_name) under (name, provider_id).
C3_State ==
    (last.op \in RegisterOps) =>
        /\ ExactlyOneGiven(last)
              => (last.outcome = "RuntimeError" /\ last.call = "none")
        /\ (ArgObj(last) = NoneVal /\ ArgMethod(last) = NoneVal)
              => /\ last.call = "register_on_client"
                 /\ last.outcome = "ok"
                 /\ \E r \in rpcs[last.eng] :
                       /\ r.id = last.result
                       /\ r.name = ArgName(last) /\ r.pid = ArgProvider(last)
                       /\ r.handler = <<>>
        /\ (ArgObj(last) # NoneVal /\ ArgMethod(last) # NoneVal)
              => /\ last.call = "register"
                 /\ last.outcome = "ok"
                 /\ \E r \in rpcs[last.eng] :
                       /\ r.id = last.result
                       /\ r.name = ArgName(last) /\ r.pid = ArgProvider(last)
                       /\ r.handler = <<ArgObj(last), ArgMethod(last)>>

C3_Step ==
    (last'.tick # last.tick /\ last'.op \in RegisterOps /\ ExactlyOneGiven(last'))
        => rpcs' = rpcs

C3_RegisterNeedsBothOrNeither == [](C3_State) /\ [][C3_Step]_vars

C3_Witness ==
    /\ last.op = "register"
    /\ ArgObj(last) # NoneVal /\ ArgMethod(last) = NoneVal
    /\ last.outcome = "RuntimeError"
    /\ Cardinality(rpcs[last.eng]) = 2

\* C4: with the session live, every registration a caller made and kept is
\* found again by registered and by Provider.registered under its own
\* provider id, with the id register returned; a name is not found under a
\* provider id it was not registered under; one name under two provider ids
\* has two ids, both still found; and a registered call returns just that.
KnownId(e, name, pid) ==
    IF \E k \in known[e] : k.name = name /\ k.pid = pid
    THEN (CHOOSE k \in known[e] : k.name = name /\ k.pid = pid).id
    ELSE NoRpcId

C4_ProviderScopedNamespaces ==
    \A e \in Engines : sess[e] = "live" =>
        /\ \A n \in RpcNames, q \in ProviderIds :
              /\ RegisteredValue(e, n, TRUE, q) = KnownId(e, n, q)
              /\ \A k \in known[e] : (k.name = n /\ k.pid = q) => k.id # NoRpcId
        /\ \A k1, k2 \in known[e] :
              (k1.name = k2.name /\ k1.pid # k2.pid) => k1.id # k2.id
        /\ (last.op \in RegisteredOps /\ last.eng = e /\ last.args.s[2] # NoneVal)
              => last.result = KnownId(e, last.args.s[1], last.args.n[1])

C4_Witness ==
    \E e \in Engines : \E k1, k2 \in known[e] :
        /\ sess[e] = "live"
        /\ k1.name = k2.name /\ k1.pid # k2.pid
        /\ last.op = "Provider.registered" /\ last.eng = e
        /\ last.args.s[1] # k1.name
        /\ last.result = NoRpcId

Used(a) == addrs[a].state # "none"
Owned(a) == Used(a) /\ addrs[a]._need_del

\* C5: a destroyed Address has freed its reference exactly once if its
\* _need_del is set and not at all otherwise; every Address made by lookup,
\* addr or copy has _need_del set and a reference of its own, live until the
\* Address is destroyed; the wrapper of a Handle's sender reference has it
\* unset; no reference is freed twice, a Handle's reference is never freed by
\* a wrapper, and a freed reference is that of a destroyed owning Address.
C5_ReleaseIffNeedsRelease ==
    /\ \A a \in 1..MaxAddrs : Used(a) =>
          /\ addrs[a].src \in {"lookup", "addr", "copy"} => addrs[a]._need_del
          /\ addrs[a].src = "borrowed"
                => (~addrs[a]._need_del /\ RefOf(a).owner = "handle")
          /\ (addrs[a].state = "dead" /\ addrs[a]._need_del)
                => (RefOf(a).state = "freed" /\ RefOf(a).frees = 1)
          /\ (addrs[a].state = "alive" /\ addrs[a]._need_del)
                => (RefOf(a).state = "live" /\ RefOf(a).frees = 0)
          /\ addrs[a]._need_del => RefOf(a).owner = "wrapper"
    /\ \A a, b \in 1..MaxAddrs :
          (Owned(a) /\ Owned(b) /\ a # b) => addrs[a]._hg_addr # addrs[b]._hg_addr
    /\ \A r \in 1..MaxRefs :
          /\ refs[r].frees <= 1
          /\ refs[r].owner = "handle" => (refs[r].frees = 0 /\ refs[r].state # "freed")
          /\ refs[r].frees = 1
                => \E a \in 1..MaxAddrs :
                      Owned(a) /\ addrs[a].state = "dead" /\ addrs[a]._hg_addr = r
    /\ last.op = "get_addr"
          => (Owned(last.result) /\ addrs[last.result]._hg_addr # handle.hg_addr)

C5_Witness ==
    \E t, c, l \in 1..MaxAddrs :
        /\ addrs[t].src = "borrowed" /\ addrs[t].state = "dead"
        /\ RefOf(t).state = "returned" /\ RefOf(t).frees = 0
        /\ addrs[c].copyOf = t /\ addrs[c].state = "dead" /\ RefOf(c).frees = 1
        /\ addrs[l].src = "lookup" /\ addrs[l].state = "dead" /\ RefOf(l).frees = 1

\* C6: a copy of an Address obtained from lookup or addr compares equal to
\* it, in both directions, while both exist; it owns a reference of its own;
\* destroying either of the two frees that one's reference once and leaves
\* the other's live, and destroying both frees each exactly once.
IsCopyOfResolved(c, a) ==
    /\ Used(c) /\ Used(a)
    /\ addrs[c].copyOf = a
    /\ addrs[a].src \in {"lookup", "addr"}

C6_CopyEqualAndIndependent ==
    /\ \A a, c \in 1..MaxAddrs : IsCopyOfResolved(c, a) =>
          /\ addrs[c]._need_del
          /\ addrs[c]._hg_addr # addrs[a]._hg_addr
          /\ (addrs[a].state = "alive" /\ addrs[c].state = "alive")
                => (AddressEqResults(c, a) = {TRUE} /\ AddressEqResults(a, c) = {TRUE})
          /\ addrs[a].state = "alive" => (RefOf(a).state = "live" /\ RefOf(a).frees = 0)
          /\ addrs[c].state = "alive" => (RefOf(c).state = "live" /\ RefOf(c).frees = 0)
          /\ addrs[a].state = "dead" => RefOf(a).frees = 1
          /\ addrs[c].state = "dead" => RefOf(c).frees = 1
    /\ (last.op = "__eq__"
          /\ (IsCopyOfResolved(last.args.n[1], last.args.n[2])
              \/ IsCopyOfResolved(last.args.n[2], last.args.n[1])))
          => last.truth

C6_Witness ==
    \E a, c \in 1..MaxAddrs :
        /\ IsCopyOfResolved(c, a)
        /\ addrs[a].state = "dead"
        /\ addrs[c].state = "alive"
        /\ last.op = "Address.__del__" /\ last.args.n[1] = a

\* C8: whenever a shutdown request for the served engine is in flight while
\* that engine has remote shutdown enabled and its thread is blocked in
\* wait_for_finalize, the call eventually returns with the flag set; and the
\* flag, once set on a constructed engine, is never cleared.
ShutdownRequested ==
    /\ Served \in net
    /\ remoteOn[Served]
    /\ thread[Served] = "waiting"

WaitReturned ==
    /\ thread[Served] = "idle"
    /\ obj[Served]._finalized
    /\ sess[Served] = "released"

FlagStaysSet ==
    \A e \in Engines : (phase[e] # "new" /\ obj[e]._finalized) => obj'[e]._finalized

C8_RemoteShutdownEndsWait ==
    /\ ShutdownRequested ~> WaitReturned
    /\ [][FlagStaysSet]_vars

C8_Witness ==
    /\ WaitReturned
    /\ last.op = "wait_for_finalize" /\ last.eng = Served
    /\ finCalls[Served] = 0
    /\ Served \notin net

\* C9: on a live session, a transfer whose origin_offset + size exceeds the
\* origin region's size, or whose local_offset + size exceeds the local
\* region's size, ends with OutOfBoundsError and moves nothing; one that stays
\* within both regions (up to offset + size = size of the region) and whose
\* direction the access modes allow succeeds and moves size bytes.
TransferOrigin(c) == bulks[c.args.s[2]]
TransferLocal(c) == bulks[c.eng]
OriginEnd(c) == c.args.n[2] + c.args.n[4]
LocalEnd(c) == c.args.n[3] + c.args.n[4]

C9_TransferBounds ==
    (last.op = "transfer" /\ last.sess = "live") =>
        /\ (OriginEnd(last) > TransferOrigin(last).size
            \/ LocalEnd(last) > TransferLocal(last).size)
              => (last.outcome = "OutOfBoundsError" /\ last.result = 0)
        /\ (/\ OriginEnd(last) <= TransferOrigin(last).size
            /\ LocalEnd(last) <= TransferLocal(last).size
            /\ ModesAllow(last.args.s[1], TransferOrigin(last).mode, TransferLocal(last).mode))
              => (last.outcome = "ok" /\ last.result = last.args.n[4])

C9_Witness ==
    /\ last.op = "transfer"
    /\ last.outcome = "OutOfBoundsError"
    /\ OriginEnd(last) = TransferOrigin(last).size
    /\ LocalEnd(last) = TransferLocal(last).size + 1

====
